---- MODULE Spec2Model ----
(***************************************************************************)
(* State-machine model of fealpy's reduced divergence-free nonconforming   *)
(* virtual element space on 2-D polygon meshes:                            *)
(*   src/fealpy/functionspace/                                             *)
(*       ReducedDivFreeNonConformingVirtualElementSpace2d.py               *)
(* (class RDFNCVEMDof2d, the dof manager, and class                        *)
(* ReducedDivFreeNonConformingVirtualElementSpace2d, the space), and of    *)
(* the cell-matrix assemblers of ScalarMassIntegrator,                     *)
(*   src/fealpy/fem/scalar_mass_integrator.py.                             *)
(*                                                                         *)
(* Arrays are functions over 0..n-1, so that every index expression of the *)
(* source reads the same here.  Floating-point contents of the local       *)
(* operators are not modelled; what is modelled is the index arithmetic,   *)
(* the shapes, the order of the steps of each method and the exception     *)
(* that ends a method early.  The numpy the source was written for is      *)
(* assumed (np.int and np.bool exist).                                     *)
(***************************************************************************)
EXTENDS Integers, Sequences, FiniteSets, TLC

VARIABLES
    mesh,     \* the polygon mesh the dof manager and the space are built on
    p,        \* the polynomial degree handed to the constructors
    dof,      \* the RDFNCVEMDof2d object: status, cell2dof, cell2dofLocation
    space,    \* the space object: constructor status and assigned fields
    gh,       \* the vector handed to set_dirichlet_bc / project_to_smspace
    seed,     \* selects the entries of the dense local blocks handed to the scatter
    qlReads,  \* the methods that have read self.Q or self.L so far
    touched,  \* the stored fields some call has written in place since __init__
    mass,     \* a ScalarMassIntegrator call: coefficient, sizes, the matrix M
    ret       \* outcome of the last call: op, status, error, value

vars == <<mesh, p, dof, space, gh, seed, qlReads, touched, mass, ret>>

(***************************************************************************)
(* Bounds of the model.                                                    *)
(***************************************************************************)
MaxCells == 2
MaxP == 3
MaxSeed == 1

(***************************************************************************)
(* The polygon mesh (external collaborator).  A chain of polygons: cell i  *)
(* is a triangle or a quadrilateral, and cell i (i > 0) shares its last    *)
(* local edge with local edge 1 of cell i-1.  nv is the sequence of the    *)
(* cells' edge counts.  Edges are numbered cell by cell in local order, a  *)
(* shared edge keeping the number it got from the first cell.              *)
(* edge2cell[e] = (cell 0, cell 1, local index in cell 0, local index in   *)
(* cell 1); for a boundary edge the second reference repeats the first.    *)
(* flip chooses which of the two cells of an interior edge is recorded as  *)
(* cell 0.                                                                 *)
(***************************************************************************)
CellSizes == {3, 4}

RECURSIVE EdgeBase(_, _)
EdgeBase(nv, i) ==
    IF i = 0 THEN 0
    ELSE EdgeBase(nv, i - 1) + (IF i = 1 THEN nv[1] ELSE nv[i] - 1)

CellToEdge(nv, i, j) ==
    IF i > 0 /\ j = nv[i + 1] - 1
    THEN EdgeBase(nv, i - 1) + 1
    ELSE EdgeBase(nv, i) + j

EdgeToCell(nv, flip, e) ==
    LET NC == Len(nv)
        own == CHOOSE ij \in (0..NC - 1) \X (0..3) :
                   /\ ij[2] < nv[ij[1] + 1]
                   /\ (ij[1] = 0 \/ ij[2] # nv[ij[1] + 1] - 1)
                   /\ CellToEdge(nv, ij[1], ij[2]) = e
        i == own[1]
        j == own[2]
    IN  IF j = 1 /\ i + 1 < NC
        THEN IF flip
             THEN [x \in 0..3 |-> <<i + 1, i, nv[i + 2] - 1, j>>[x + 1]]
             ELSE [x \in 0..3 |-> <<i, i + 1, j, nv[i + 2] - 1>>[x + 1]]
        ELSE [x \in 0..3 |-> <<i, i, j, j>>[x + 1]]

ChainMesh(nv, flip) ==
    LET NC == Len(nv)
        NE == EdgeBase(nv, NC)
    IN  [NC |-> NC,
         NE |-> NE,
         NCE |-> [c \in 0..NC - 1 |-> nv[c + 1]],
         cell2edge |-> [c \in 0..NC - 1 |->
                           [j \in 0..nv[c + 1] - 1 |-> CellToEdge(nv, c, j)]],
         edge2cell |-> [e \in 0..NE - 1 |-> EdgeToCell(nv, flip, e)]]

Meshes ==
    {ChainMesh(nv, flip) :
        nv \in UNION {[1..n -> CellSizes] : n \in 1..MaxCells},
        flip \in BOOLEAN}

\* mesh.ds.boundary_edge_flag(): the second cell reference repeats the first.
boundary_edge_flag(m) ==
    [e \in 0..m.NE - 1 |-> m.edge2cell[e][0] = m.edge2cell[e][1]]

\* isInEdge = (edge2cell[:, 0] != edge2cell[:, 1])
isInEdge(m) ==
    [e \in 0..m.NE - 1 |-> m.edge2cell[e][0] # m.edge2cell[e][1]]

HasInteriorEdge(m) == \E e \in 0..m.NE - 1 : isInEdge(m)[e]

(***************************************************************************)
(* numpy helpers.                                                          *)
(***************************************************************************)
\* np.arange(n)
arange(n) == [i \in 0..n - 1 |-> i]

\* a.reshape(rows, cols), C (row-major) order
reshape(a, rows, cols) ==
    [r \in 0..rows - 1 |-> [k \in 0..cols - 1 |-> a[r * cols + k]]]

\* np.add.accumulate(a)[i]
RECURSIVE accumulate(_, _)
accumulate(a, i) == IF i = 0 THEN a[0] ELSE accumulate(a, i - 1) + a[i]

\* a[idx] = val for a rows x cols index table idx: every addressed slot gets
\* the value of the last (row-major) position that addresses it.
ScatterAssign(a, idx, val, rows, cols) ==
    [i \in DOMAIN a |->
        LET hits == {h \in (0..rows - 1) \X (0..cols - 1) : idx[h[1]][h[2]] = i}
        IN  IF hits = {} THEN a[i]
            ELSE LET last == CHOOSE h \in hits :
                                 \A g \in hits :
                                     g[1] * cols + g[2] <= h[1] * cols + h[2]
                 IN  val[last[1]][last[2]]]

\* numpy's rule for assigning a value of shape vs into a target of shape ts
Broadcastable(vs, ts) ==
    /\ Len(vs) <= Len(ts)
    /\ \A i \in 1..Len(vs) :
           vs[i] = 1 \/ vs[i] = ts[Len(ts) - Len(vs) + i]

(***************************************************************************)
(* RDFNCVEMDof2d: the dof manager (scalar edge dofs only).                 *)
(***************************************************************************)
Dof_number_of_global_dofs(m, q) == m.NE * q

Dof_number_of_local_dofs(m, q) == [c \in 0..m.NC - 1 |-> m.NCE[c] * q]

\* the table filled in column-major order: entry (e, k) = k*NE + e
edge_to_dof_colmajor(m, q) ==
    [e \in 0..m.NE - 1 |-> [k \in 0..q - 1 |-> arange(m.NE * q)[k * m.NE + e]]]

edge_to_dof(m, q) == reshape(arange(m.NE * q), m.NE, q)

\* cell2dofLocation = zeros(NC+1); cell2dofLocation[1:] = accumulate(ldof)
Dof_cell2dofLocation(m, q) ==
    [c \in 0..m.NC |->
        IF c = 0 THEN 0 ELSE accumulate(Dof_number_of_local_dofs(m, q), c - 1)]

\* idx = cell2dofLocation[edge2cell[:, [0]]] + edge2cell[:, [2]]*p + arange(p)
CellIdx0(m, q) ==
    [e \in 0..m.NE - 1 |-> [k \in 0..q - 1 |->
        Dof_cell2dofLocation(m, q)[m.edge2cell[e][0]] + m.edge2cell[e][2] * q
            + arange(q)[k]]]

\* the second pass taking the local index from column 2 instead of column 3
CellIdx1_col2(m, q) ==
    [e \in 0..m.NE - 1 |-> [k \in 0..q - 1 |->
        Dof_cell2dofLocation(m, q)[m.edge2cell[e][1]] + m.edge2cell[e][2] * q
            + arange(q)[k]]]

\* idx = cell2dofLocation[edge2cell[:, [1]]] + edge2cell[:, [3]]*p + arange(p)
CellIdx1(m, q) ==
    [e \in 0..m.NE - 1 |-> [k \in 0..q - 1 |->
        Dof_cell2dofLocation(m, q)[m.edge2cell[e][1]] + m.edge2cell[e][3] * q
            + arange(q)[k]]]

\* cell2dof after the first write pass (line 60)
CellToDofPass1(m, q) ==
    ScatterAssign([i \in 0..Dof_cell2dofLocation(m, q)[m.NC] - 1 |-> 0],
                  CellIdx0(m, q), edge_to_dof(m, q), m.NE, q)

\* cell2dof after the second write pass (line 63)
CellToDofPass2(m, q) ==
    ScatterAssign(CellToDofPass1(m, q), CellIdx1(m, q), edge_to_dof(m, q), m.NE, q)

Dof_cell_to_dof(m, q) ==
    [cell2dof |-> CellToDofPass2(m, q),
     cell2dofLocation |-> Dof_cell2dofLocation(m, q)]

\* the mask set for the dofs of every edge, boundary or not
Dof_boundary_dof_alledges(m, q) ==
    [i \in 0..Dof_number_of_global_dofs(m, q) - 1 |->
        \E e \in 0..m.NE - 1, k \in 0..q - 1 : edge_to_dof(m, q)[e][k] = i]

\* isBdDof = zeros(gdof, bool); isBdDof[edge2dof[isBdEdge]] = True
Dof_boundary_dof(m, q) ==
    [i \in 0..Dof_number_of_global_dofs(m, q) - 1 |->
        \E e \in 0..m.NE - 1, k \in 0..q - 1 :
            boundary_edge_flag(m)[e] /\ edge_to_dof(m, q)[e][k] = i]

(***************************************************************************)
(* ReducedDivFreeNonConformingVirtualElementSpace2d: the space.            *)
(***************************************************************************)
\* idof = (p-2)*(p-1)//2: interior moment dofs of one cell
idof(q) == ((q - 2) * (q - 1)) \div 2

number_of_global_dofs(m, q) ==
    2 * m.NE * q + (IF q > 2 THEN (m.NC * (q - 2) * (q - 1)) \div 2 ELSE 0)

number_of_local_dofs(m, q) ==
    [c \in 0..m.NC - 1 |->
        2 * m.NCE[c] * q + (IF q > 2 THEN ((q - 2) * (q - 1)) \div 2 ELSE 0)]

\* cell_to_dof(doftype)
cell_to_dof(m, q, d, doftype) ==
    CASE doftype = "all" ->
             [cell2dof |-> d.cell2dof, cell2dofLocation |-> d.cell2dofLocation]
      [] doftype = "cell" ->
             [c \in 0..m.NC - 1 |-> [k \in 0..idof(q) - 1 |->
                 2 * m.NE * q + reshape(arange(m.NC * idof(q)), m.NC, idof(q))[c][k]]]
      [] doftype = "edge" -> edge_to_dof(m, q)

(***************************************************************************)
(* __init__ (lines 92-114): the fields assigned before the builders run,   *)
(* then the six builders in the order of the source.  A builder that       *)
(* raises ends the constructor: its fields and those of the later builders *)
(* stay unassigned and no object is returned.                              *)
(***************************************************************************)
BaseFields ==
    {"p", "smspace", "mesh", "dof", "integralalg", "CM", "EM", "H0", "H1",
     "ftype", "itype"}

Builders ==
    <<"matrix_Q_L", "matrix_G_B", "matrix_M", "matrix_R_J", "matrix_D",
      "matrix_PI0">>

BuilderFields(b) ==
    CASE b = "matrix_Q_L" -> {"Q", "L"}
      [] b = "matrix_G_B" -> {"G", "B"}
      [] b = "matrix_M" -> {"M"}
      [] b = "matrix_R_J" -> {"R", "J"}
      [] b = "matrix_D" -> {"D"}
      [] b = "matrix_PI0" -> {"PI0"}

\* the stored matrices each builder reads (self.X in its body)
BuilderReads(b) ==
    CASE b = "matrix_Q_L" -> {"CM"}                     \* line 195
      [] b = "matrix_G_B" -> {"CM"}                     \* line 224
      [] b = "matrix_M" -> {"H0", "H1"}                 \* lines 319, 323
      [] b = "matrix_R_J" -> {"CM", "M", "H1"}          \* lines 371, 390, 435
      [] b = "matrix_D" -> {"CM", "H1"}                 \* lines 575, 593
      [] b = "matrix_PI0" -> {"G", "B", "R", "J"}       \* lines 171-179

\* matrix_Q_L: for p > 2 line 197 reads self.index1, which the class does not
\* define (and line 204 reads the unbound name sel); for p <= 2 it returns
\* (None, None).
matrix_Q_L_error(m, q) == IF q > 2 THEN "AttributeError" ELSE "none"

\* matrix_M: line 324 divides F0 (NE x ndof x p, ndof = p(p+1)/2, lines 312-323)
\* in place by c[None, :, None] with len(c) = p(p-1)/2 (line 321), which
\* broadcasts into F0 only when len(c) = 1, that is p = 2; line 341 (run when
\* the mesh has an interior edge) hands einsum six operands for four
\* subscripts.
matrix_M_error(m, q) ==
    IF ~Broadcastable(<<1, (q * (q - 1)) \div 2, 1>>,
                      <<m.NE, (q * (q + 1)) \div 2, q>>)
    THEN "ValueError"
    ELSE IF HasInteriorEdge(m) THEN "ValueError"
    ELSE "none"

BuilderError(b, m, q) ==
    CASE b = "matrix_Q_L" -> matrix_Q_L_error(m, q)
      [] b = "matrix_M" -> matrix_M_error(m, q)
      [] OTHER -> "none"

\* index (1-based) of the first builder that raises, 0 when none does
FirstFailure(m, q) ==
    LET bad == {i \in 1..Len(Builders) : BuilderError(Builders[i], m, q) # "none"}
    IN  IF bad = {} THEN 0 ELSE CHOOSE i \in bad : \A j \in bad : i <= j

\* number of blocks in the list J returned by matrix_R_J (line 559)
JBlocks == 3

\* the value matrix_Q_L returns for Q and for L (lines 207, 209)
matrix_Q_L(q) == IF q > 2 THEN "array" ELSE "None"

SpaceFields(m, q, upto) ==
    BaseFields \cup UNION {BuilderFields(Builders[i]) : i \in 1..upto}

SpaceCtor(m, q) ==
    LET ff == FirstFailure(m, q)
        done == IF ff = 0 THEN Len(Builders) ELSE ff - 1
    IN  [status |-> IF ff = 0 THEN "ok" ELSE "raised",
         error |-> IF ff = 0 THEN "none" ELSE BuilderError(Builders[ff], m, q),
         raisedIn |-> IF ff = 0 THEN "none" ELSE Builders[ff],
         assigned |-> SpaceFields(m, q, done),
         Q |-> IF done >= 1 THEN matrix_Q_L(q) ELSE "unset",
         L |-> IF done >= 1 THEN matrix_Q_L(q) ELSE "unset",
         nJ |-> IF done >= 4 THEN JBlocks ELSE 0]

NoSpace ==
    [status |-> "none", error |-> "none", raisedIn |-> "none", assigned |-> {},
     Q |-> "unset", L |-> "unset", nJ |-> 0]

NoRet == [op |-> "none", status |-> "none", error |-> "none", value |-> <<>>]

\* no ScalarMassIntegrator call in this program
NoMass == <<>>

NoDof == [status |-> "none", cell2dof |-> <<>>, cell2dofLocation |-> <<>>]

BuiltDof(m, q) ==
    [status |-> "built",
     cell2dof |-> Dof_cell_to_dof(m, q).cell2dof,
     cell2dofLocation |-> Dof_cell_to_dof(m, q).cell2dofLocation]

Raised(op, err) == [op |-> op, status |-> "raised", error |-> err, value |-> <<>>]

Returned(op, val) == [op |-> op, status |-> "ok", error |-> "none", value |-> val]

(***************************************************************************)
(* matrix_M (lines 271-353): which edge moments are accumulated into which *)
(* column of the coupling blocks M00, M01, M10, M11 (all four take the     *)
(* same index arrays), and with which of np.add.at / np.subtract.at.       *)
(***************************************************************************)
\* idx0 = cell2dofLocation[edge2cell[:, [0]]] + edge2cell[:, [2]]*p + arange(p)
matrix_M_idx0(m, q, d) ==
    [e \in 0..m.NE - 1 |-> [k \in 0..q - 1 |->
        d.cell2dofLocation[m.edge2cell[e][0]] + m.edge2cell[e][2] * q
            + arange(q)[k]]]

\* idx0 = cell2dofLocation[edge2cell[:, [1]]] + edge2cell[:, [3]]*p + arange(p)
matrix_M_idx1(m, q, d) ==
    [e \in 0..m.NE - 1 |-> [k \in 0..q - 1 |->
        d.cell2dofLocation[m.edge2cell[e][1]] + m.edge2cell[e][3] * q
            + arange(q)[k]]]

\* np.add.at(M, (np.s_[:], idx0), val): every edge, at its first cell
matrix_M_add(m, q, d, col) ==
    {t \in {<<e, k, "add">> : e \in 0..m.NE - 1, k \in 0..q - 1} :
        matrix_M_idx0(m, q, d)[t[1]][t[2]] = col}

\* np.subtract.at(M, (np.s_[:], idx0[isInEdge]), val[:, isInEdge]): interior
\* edges only, at their second cell
matrix_M_subtract(m, q, d, col) ==
    {t \in {<<e, k, "subtract">> : e \in 0..m.NE - 1, k \in 0..q - 1} :
        isInEdge(m)[t[1]] /\ matrix_M_idx1(m, q, d)[t[1]][t[2]] = col}

matrix_M(m, q, d) ==
    IF matrix_M_error(m, q) # "none"
    THEN Raised("matrix_M", matrix_M_error(m, q))
    ELSE Returned("matrix_M",
             [col \in DOMAIN d.cell2dof |->
                 matrix_M_add(m, q, d, col)
                     \cup (IF HasInteriorEdge(m)
                           THEN matrix_M_subtract(m, q, d, col) ELSE {})])

(***************************************************************************)
(* matrix_A (lines 613-699).                                               *)
(***************************************************************************)
\* f5 with the interior range of every cell starting at 2*NE*p
f5_cd_interior_from_0(m, q, d, i) ==
    LET lo == d.cell2dofLocation[i]
        n == d.cell2dofLocation[i + 1] - lo
    IN  [k \in 1..n |-> d.cell2dof[lo + k - 1]]
        \o [k \in 1..n |-> m.NE * q + d.cell2dof[lo + k - 1]]
        \o [k \in 1..idof(q) |-> 2 * m.NE * q + k - 1]

\* f5: cd = r_[cell2dof[s], NE*p + cell2dof[s], 2*NE*p + arange(i*idof, (i+1)*idof)]
\* (a sequence, 1-based)
f5_cd(m, q, d, i) ==
    LET lo == d.cell2dofLocation[i]
        n == d.cell2dofLocation[i + 1] - lo
    IN  [k \in 1..n |-> d.cell2dof[lo + k - 1]]
        \o [k \in 1..n |-> m.NE * q + d.cell2dof[lo + k - 1]]
        \o [k \in 1..idof(q) |-> 2 * m.NE * q + i * idof(q) + k - 1]

\* entry (a, b) of the dense local block of cell i as f4 returns it; the
\* entries are data of the model, selected by sd
BlockEntry(sd, i, a, b) == (sd * (a + 1) + b + i) % 3

\* the block of cell i: square, of the order of the cell's index list
LocalBlock(sd, i, n) ==
    [a \in 0..n - 1 |-> [b \in 0..n - 1 |-> BlockEntry(sd, i, a, b)]]

RECURSIVE ConcatCells(_, _)
\* np.concatenate(list(map(part, range(NC)))) for part[i] a sequence
ConcatCells(part, nc) ==
    IF nc = 0 THEN <<>> ELSE ConcatCells(part, nc - 1) \o part[nc - 1]

\* I = concatenate(x[1].flat) with x = meshgrid(cd, cd): x[1][a][b] = cd[a]
AsmI(m, q, d) ==
    ConcatCells([i \in 0..m.NC - 1 |->
        LET cd == f5_cd(m, q, d, i)
            n == Len(cd)
        IN  [k \in 1..n * n |-> cd[((k - 1) \div n) + 1]]], m.NC)

\* J = concatenate(x[0].flat) with x = meshgrid(cd, cd): x[0][a][b] = cd[b]
AsmJ(m, q, d) ==
    ConcatCells([i \in 0..m.NC - 1 |->
        LET cd == f5_cd(m, q, d, i)
            n == Len(cd)
        IN  [k \in 1..n * n |-> cd[((k - 1) % n) + 1]]], m.NC)

\* A = concatenate(list(map(lambda x: x[0].flat, A))): x is the n x n block of
\* a cell, x[0] its first row
AsmVals(m, q, d, sd) ==
    ConcatCells([i \in 0..m.NC - 1 |->
        LET n == Len(f5_cd(m, q, d, i))
            x == LocalBlock(sd, i, n)
        IN  [k \in 1..n |-> x[0][k - 1]]], m.NC)

RECURSIVE SumRange(_, _, _)
\* f[lo] + ... + f[hi]
SumRange(f, lo, hi) ==
    IF lo > hi THEN 0
    ELSE IF lo = hi THEN f[lo]
    ELSE SumRange(f, lo, (lo + hi) \div 2) + SumRange(f, ((lo + hi) \div 2) + 1, hi)

\* sum of the values of the triplets that sit at (r, s)
SumTriplets(vals, I, J, r, s) ==
    SumRange([k \in 1..Len(vals) |-> IF I[k] = r /\ J[k] = s THEN vals[k] ELSE 0],
             1, Len(vals))

\* csr_matrix((vals, (I, J)), shape=(gdof, gdof)): the three arrays must have
\* one length; entries at the same (row, col) are summed
csr_matrix(vals, I, J, gdof) ==
    IF Len(vals) # Len(I) \/ Len(I) # Len(J)
    THEN [status |-> "raised", error |-> "ValueError",
          nvals |-> Len(vals), nI |-> Len(I), nJ |-> Len(J), matrix |-> <<>>]
    ELSE [status |-> "ok", error |-> "none",
          nvals |-> Len(vals), nI |-> Len(I), nJ |-> Len(J),
          matrix |-> [rs \in (0..gdof - 1) \X (0..gdof - 1) |->
                         SumTriplets(vals, I, J, rs[1], rs[2])]]

\* lines 686-698: the global scatter of the cells' local blocks
GlobalScatter(m, q, d, sd) ==
    csr_matrix(AsmVals(m, q, d, sd), AsmI(m, q, d), AsmJ(m, q, d),
               number_of_global_dofs(m, q))

\* the guard of lines 649-652 written as p >= 2
ReadsQL_from2(op, q) == op = "matrix_A" /\ q >= 2

\* whether a method reads self.Q / self.L: only matrix_A does, under
\* "if p > 2" (lines 649-652)
ReadsQL(op, q) == op = "matrix_A" /\ q > 2

\* S00 = list(map(f, ldof)): one ndof x ndof zero matrix per cell (lines
\* 628-631); an entry is modelled as the sequence of the terms added to it
S_zeros(m, q) ==
    [c \in 0..m.NC - 1 |->
        [rs \in (0..Dof_number_of_local_dofs(m, q)[c] - 1)
                 \X (0..Dof_number_of_local_dofs(m, q)[c] - 1) |-> <<>>]]

\* Sc[p*j:p*(j+1), p*j:p*(j+1)] += H1[e]*c with c = eh[e]**2/ch[cell]: entry
\* (r, s) of the slice receives the term H1[e][r][s] * eh[e]**2 / ch[cell]
SliceAdd(Sc, j, q, e, cell) ==
    [rs \in DOMAIN Sc |->
        IF /\ q * j <= rs[1] /\ rs[1] < q * (j + 1)
           /\ q * j <= rs[2] /\ rs[2] < q * (j + 1)
        THEN Append(Sc[rs], [edge |-> e, ch |-> cell,
                             r |-> rs[1] - q * j, s |-> rs[2] - q * j])
        ELSE Sc[rs]]

\* f1(i): the edge's first cell, local index edge2cell[i, 2]
f1(Sxx, m, q, i) ==
    [Sxx EXCEPT ![m.edge2cell[i][0]] =
        SliceAdd(Sxx[m.edge2cell[i][0]], m.edge2cell[i][2], q, i, m.edge2cell[i][0])]

\* f2 without its test of isInEdge[i]
f2_every_edge(Sxx, m, q, i) ==
    [Sxx EXCEPT ![m.edge2cell[i][1]] =
        SliceAdd(Sxx[m.edge2cell[i][1]], m.edge2cell[i][3], q, i, m.edge2cell[i][1])]

\* f2(i): for an interior edge, its second cell, local index edge2cell[i, 3]
f2(Sxx, m, q, i) ==
    IF isInEdge(m)[i]
    THEN [Sxx EXCEPT ![m.edge2cell[i][1]] =
             SliceAdd(Sxx[m.edge2cell[i][1]], m.edge2cell[i][3], q, i,
                      m.edge2cell[i][1])]
    ELSE Sxx

RECURSIVE map_f1(_, _, _, _)
\* list(map(f1, range(NE)))
map_f1(Sxx, m, q, n) ==
    IF n = 0 THEN Sxx ELSE f1(map_f1(Sxx, m, q, n - 1), m, q, n - 1)

RECURSIVE map_f2(_, _, _, _)
\* list(map(f2, range(NE)))
map_f2(Sxx, m, q, n) ==
    IF n = 0 THEN Sxx ELSE f2(map_f2(Sxx, m, q, n - 1), m, q, n - 1)

\* S00, S11 and S01 after lines 646-647 (f1 and f2 add the same term to S00
\* and to S11; no statement writes S01)
matrix_A_S(m, q) ==
    LET after == map_f2(map_f1(S_zeros(m, q), m, q, m.NE), m, q, m.NE)
    IN  [S00 |-> after, S11 |-> after, S01 |-> S_zeros(m, q)]

\* smspace.number_of_local_dofs(): the scalar monomials of degree <= p
smldof(q) == ((q + 1) * (q + 2)) \div 2

\* matrix_PI0.f: PI = inv(G) @ R with G square of order 2*smldof + ndof
\* (ndof = smldof - p - 1, the rows B adds) and R with the columns of the
\* cell: its edge dofs twice and its idof interior dofs
PI0_shape(m, q, d, i) ==
    <<2 * smldof(q) + (smldof(q) - q - 1),
      2 * (d.cell2dofLocation[i + 1] - d.cell2dofLocation[i]) + idof(q)>>

\* f4: block([[D0, 0], [0, D0], [D1, D2]]) with D0 = self.D[0][s, :]
\* (rows of the cell x smldof) and D1, D2 (idof x smldof)
f4_Dblock_shape(m, q, d, i) ==
    <<2 * (d.cell2dofLocation[i + 1] - d.cell2dofLocation[i]) + idof(q),
      2 * smldof(q)>>

\* f4: D = np.eye(PI0.shape[1])
f4_D_order(m, q, d, i) == PI0_shape(m, q, d, i)[2]

\* f4: block([[S00[i], S01[i], 0], [S01[i].T, S11[i], 0], [0, 0, S22[i]]])
f4_S_order(m, q, d, i) ==
    2 * Dof_number_of_local_dofs(m, q)[i] + idof(q)

\* f4: U = block([[J0, 0, J2], [J1, J0, J2+J3], [0, J1, J3]]) with
\* J0 = self.J[0][:, s] (ndof x columns of the cell), J2 (ndof x idof)
f4_U_shape(m, q, d, i) ==
    <<3 * (smldof(q) - q - 1),
      2 * (d.cell2dofLocation[i + 1] - d.cell2dofLocation[i]) + idof(q)>>

\* f4: block([[H0[i], 0, 0], [0, 0.5*H0[i], 0], [0, 0, H0[i]]]) with H0 of
\* order p(p+1)/2 (lines 102-103)
f4_H0_order(q) == 3 * ((q * (q + 1)) \div 2)

\* a @ b needs the columns of a to be the rows of b
MatmulOK(a, b) == a[2] = b[1]

\* the indices of self.J that f4 reads (lines 672-675)
f4_JReads == {0, 1, 2, 3}

\* how a call of matrix_A ends, with the local lists of lines 628-647
matrix_A_end(op, status, err, val, Sxx) ==
    [op |-> op, status |-> status, error |-> err, value |-> val, S |-> Sxx]

matrix_A(m, q, d, sp, sd) ==
    LET Sxx == matrix_A_S(m, q)
    IN  IF ReadsQL("matrix_A", q) /\ (sp.L # "array" \/ sp.Q # "array")
        THEN matrix_A_end("matrix_A", "raised", "TypeError", <<>>, Sxx)
        ELSE IF m.NC > 0
                /\ ~MatmulOK(f4_Dblock_shape(m, q, d, 0), PI0_shape(m, q, d, 0))
        THEN \* line 667, cell 0: block(...) @ PI0
             matrix_A_end("matrix_A", "raised", "ValueError", <<>>, Sxx)
        ELSE IF m.NC > 0 /\ \E j \in f4_JReads : j >= sp.nJ
        THEN matrix_A_end("matrix_A", "raised", "IndexError", <<>>, Sxx)
        ELSE IF GlobalScatter(m, q, d, sd).status # "ok"
        THEN matrix_A_end("matrix_A", "raised", GlobalScatter(m, q, d, sd).error,
                          <<>>, Sxx)
        ELSE \* line 699: "return" with no value
             matrix_A_end("matrix_A", "ok", "none", "None", Sxx)

(***************************************************************************)
(* matrix_P (lines 701-734).                                               *)
(***************************************************************************)
\* names bound in matrix_P before f0 runs (lines 702-706), and the module's
\* imports (lines 1-10)
matrix_P_bound ==
    {"self", "p", "idof", "cell2dof", "cell2dofLocation", "NC", "cd1", "i",
     "np", "inv", "bmat", "coo_matrix", "csc_matrix", "csr_matrix", "spdiags",
     "eye", "Function", "ScaledMonomialSpace2d", "GaussLegendreQuadrature",
     "PolygonMeshIntegralAlg", "ranges", "block"}

\* names f0 reads (lines 708-710)
f0_names ==
    {"cell2dofLocation", "i", "np", "cell2dof", "NE", "p", "idof", "cd1"}

\* rows of self.J[k] (ndof x len(cell2dof), ndof = p(p+1)/2) that the slice
\* self.J[k][cell2dofLocation[i]:cell2dofLocation[i+1]] of line 716 keeps
f_rows(q, d, i) ==
    Cardinality({r \in 0..((q * (q + 1)) \div 2) - 1 :
                    d.cell2dofLocation[i] <= r /\ r < d.cell2dofLocation[i + 1]})

RECURSIVE SumCells(_, _)
SumCells(f, nc) == IF nc = 0 THEN 0 ELSE SumCells(f, nc - 1) + f[nc - 1]

\* the source of the values of each column block of the result (lines 721,
\* 725, 732): the third block is built from P1
matrix_P_values(q) == IF q = 2 THEN <<"J0", "J1">> ELSE <<"J0", "J1", "J1">>

matrix_P(m, q, d, sp) ==
    LET nI == SumCells([i \in 0..m.NC - 1 |->
                  Len(f5_cd(m, q, d, i)) * ((q * (q + 1)) \div 2)], m.NC)
        nP0 == SumCells([i \in 0..m.NC - 1 |->
                  f_rows(q, d, i) * Len(d.cell2dof)], m.NC)
    IN  IF m.NC > 0 /\ ~(f0_names \subseteq matrix_P_bound)
        THEN Raised("matrix_P", "NameError")
        ELSE IF nP0 # nI
        THEN Raised("matrix_P", "ValueError")
        ELSE IF q > 2 /\ 4 >= sp.nJ
        THEN Raised("matrix_P", "IndexError")
        ELSE Returned("matrix_P",
                 [rows |-> m.NC * ((q * (q + 1)) \div 2),
                  cols |-> 2 * Dof_number_of_global_dofs(m, q)
                              + (IF q = 2 THEN 0 ELSE m.NC * idof(q)),
                  values |-> matrix_P_values(q)])

(***************************************************************************)
(* source_vector (lines 737-752).                                          *)
(***************************************************************************)
\* b = np.zeros(gdof): one axis (line 750)
source_vector_b_ndim == 1

\* b[cell2dof, :] = bb: two indices (line 751)
source_vector_indices == 2

source_vector(m, q, d) ==
    IF source_vector_indices > source_vector_b_ndim
    THEN Raised("source_vector", "IndexError")
    ELSE Returned("source_vector",
             [i \in 0..number_of_global_dofs(m, q) - 1 |->
                 IF \E c \in 0..m.NC - 1, k \in 0..idof(q) - 1 :
                        cell_to_dof(m, q, d, "cell")[c][k] = i
                 THEN 1 ELSE 0])

(***************************************************************************)
(* set_dirichlet_bc (lines 754-769).  g is scalar- or vector-valued; v     *)
(* stands for the values H1[isBdEdge]@b computed from g.                   *)
(***************************************************************************)
BdEdges(m) == {e \in 0..m.NE - 1 : boundary_edge_flag(m)[e]}

\* the first-axis indices edge2dof[isBdEdge]
BdEdgeRows(m, q) ==
    LET edge2dof == edge_to_dof(m, q)
    IN  {edge2dof[e][k] : e \in BdEdges(m), k \in 0..q - 1}

set_dirichlet_bc(m, q, g0, gkind, v) ==
    LET nbe == Cardinality(BdEdges(m))
        vshape == IF gkind = "vector" THEN <<nbe, q, 2>> ELSE <<nbe, q>>
        tshape == IF g0.ndim = 2 THEN <<nbe, q, 2>> ELSE <<nbe, q>>
        rows == BdEdgeRows(m, q)
    IN  IF ~Broadcastable(vshape, tshape)
        THEN [status |-> "raised", error |-> "ValueError", gh |-> g0]
        ELSE [status |-> "ok", error |-> "none",
              gh |-> [ndim |-> g0.ndim,
                      data |-> [i \in DOMAIN g0.data |->
                                   IF i \in rows
                                   THEN [c \in 1..g0.ndim |-> v]
                                   ELSE g0.data[i]]]]

\* the vectors a caller allocates for the space: array() (one axis) or
\* array(dim=2) (gdof x 2), with old contents 0/1
GhInputs(m, q) ==
    {[ndim |-> nd,
      data |-> [i \in 0..number_of_global_dofs(m, q) - 1 |->
                   [c \in 1..nd |-> (i + f) % 2]]] :
        nd \in {1, 2}, f \in {0, 1}}

\* the values set_dirichlet_bc computes from g
GValues == {2}

(***************************************************************************)
(* project (lines 116-138): what uh holds at each position when the call   *)
(* ends.  uh0 has the axes (edge, k, component) (lines 121-125); uh0.T     *)
(* reverses them to (component, k, edge), and .flat reads that in          *)
(* row-major order.  [c, e, k] stands for the k-th moment of component c   *)
(* of u on edge e.  For p > 2 line 128 reads self.index1, which the class  *)
(* does not define.                                                        *)
(***************************************************************************)
\* uh0.T.flat[i]
uh0_T_flat(m, q, i) ==
    [c |-> i \div (q * m.NE), e |-> i % m.NE, k |-> (i % (q * m.NE)) \div m.NE]

project(m, q) ==
    IF q > 2
    THEN Raised("project", "AttributeError")
    ELSE Returned("project",
             [i \in 0..number_of_global_dofs(m, q) - 1 |->
                 IF i < 2 * m.NE * q THEN uh0_T_flat(m, q, i)
                 ELSE "zero"])

(***************************************************************************)
(* project_to_smspace (lines 140-163): the entries of uh that f reads for  *)
(* cell i.                                                                 *)
(***************************************************************************)
project_to_smspace_reads(m, q, d, i) ==
    LET lo == d.cell2dofLocation[i]
        n == d.cell2dofLocation[i + 1] - lo
        idx == [k \in 1..n |-> d.cell2dof[lo + k - 1]]
    IN  idx \o [k \in 1..n |-> idx[k] + m.NE * q]
            \o (IF q > 2
                THEN [k \in 1..idof(q) |-> 2 * m.NE * q + i * idof(q) + k - 1]
                ELSE <<>>)

(***************************************************************************)
(* In-place statements.  A method writes in place (x[...] = v, x += v,     *)
(* x -= v, x *= v) through local names; Binding gives the object such a    *)
(* name is bound to: "fresh" (allocated by the call), "argument" (handed   *)
(* in by the caller) or the stored field it is, or is a view of.           *)
(***************************************************************************)
\* S00 and S11 taken as views of the stored edge matrices instead of
\* fresh zero matrices
Binding_S_views_H1(op, name) ==
    IF op = "matrix_A" /\ name \in {"S00", "S11"} THEN "H1" ELSE "fresh"

Binding(op, name) ==
    CASE op = "matrix_A" /\ name \in {"S00", "S11"} -> "fresh"  \* lines 629-631
      [] op = "matrix_A" /\ name = "D" -> "fresh"                \* line 660, np.eye
      [] op = "project_to_smspace" /\ name = "x2" -> "fresh"     \* line 154
      [] op = "project_to_smspace" /\ name = "sh" -> "fresh"     \* line 147
      [] op = "project" /\ name = "uh" -> "fresh"                \* line 119
      [] op = "source_vector" /\ name = "bb" -> "fresh"          \* line 746, Q@bb
      [] op = "source_vector" /\ name = "b" -> "fresh"           \* line 750
      [] op = "set_dirichlet_bc" /\ name = "gh" -> "argument"    \* line 754
      [] op = "boundary_dof" /\ name = "isBdDof" -> "fresh"      \* line 31
      [] OTHER -> "fresh"

\* the names a call writes in place before it returns or raises
InPlaceTargets(op, m, q, d) ==
    CASE op = "matrix_A" ->
             \* lines 638-639, 644-645; line 664 only when its right-hand
             \* side (line 667) can be evaluated
             (IF m.NE > 0 THEN {"S00", "S11"} ELSE {})
                 \cup (IF m.NC > 0 /\ MatmulOK(f4_Dblock_shape(m, q, d, 0),
                                                PI0_shape(m, q, d, 0))
                       THEN {"D"} ELSE {})
      [] op = "project_to_smspace" ->
             (IF q > 2 THEN {"x2"} ELSE {}) \cup {"sh"}       \* lines 157, 160-161
      [] op = "project" -> {"uh"}                              \* line 126
      [] op = "source_vector" -> {"bb"}                        \* line 747
      [] op = "set_dirichlet_bc" -> {"gh"}                     \* line 769
      [] op = "boundary_dof" -> {"isBdDof"}                    \* line 34
      [] OTHER -> {}                                           \* matrix_P, cell_to_dof

\* the stored fields a call writes
StoredWrites(op, m, q, d) ==
    {Binding(op, n) : n \in InPlaceTargets(op, m, q, d)} \ {"fresh", "argument"}

(***************************************************************************)
(* The program: construction of the dof manager and of the space, then     *)
(* calls of their methods.                                                 *)
(***************************************************************************)
Init ==
    /\ mesh \in Meshes
    /\ p \in 1..MaxP
    /\ dof = NoDof
    /\ space = NoSpace
    /\ gh \in GhInputs(mesh, p)
    /\ seed = 0
    /\ qlReads = {}
    /\ touched = {}
    /\ mass = NoMass
    /\ ret = NoRet

\* RDFNCVEMDof2d.__init__ (a dof manager built on its own)
DofInit ==
    /\ dof.status = "none"
    /\ space.status = "none"
    /\ dof' = BuiltDof(mesh, p)
    /\ ret' = Returned("RDFNCVEMDof2d", <<>>)
    /\ UNCHANGED <<mesh, p, space, gh, seed, qlReads, touched, mass>>

\* ReducedDivFreeNonConformingVirtualElementSpace2d.__init__; line 95 builds
\* self.dof before any builder runs
SpaceInit ==
    /\ space.status = "none"
    /\ dof' = BuiltDof(mesh, p)
    /\ space' = SpaceCtor(mesh, p)
    /\ qlReads' = qlReads \cup
           {Builders[i] : i \in {j \in 1..Len(Builders) :
                /\ (FirstFailure(mesh, p) = 0 \/ j < FirstFailure(mesh, p))
                /\ ReadsQL(Builders[j], p)}}
    /\ ret' = IF SpaceCtor(mesh, p).status = "ok"
              THEN Returned("__init__", <<>>)
              ELSE Raised("__init__", SpaceCtor(mesh, p).error)
    /\ UNCHANGED <<mesh, p, gh, seed, touched, mass>>

\* RDFNCVEMDof2d.edge_to_dof
EdgeToDof ==
    /\ dof.status = "built"
    /\ ret' = Returned("edge_to_dof", edge_to_dof(mesh, p))
    /\ UNCHANGED <<mesh, p, dof, space, gh, seed, qlReads, touched, mass>>

\* RDFNCVEMDof2d.boundary_dof
DofBoundaryDof ==
    /\ dof.status = "built"
    /\ ret' = Returned("dof.boundary_dof", Dof_boundary_dof(mesh, p))
    /\ UNCHANGED <<mesh, p, dof, space, gh, seed, qlReads, touched, mass>>

\* the space's boundary_dof (lines 803-804): return self.dof.boundary_dof()
BoundaryDof ==
    /\ space.status = "ok"
    /\ ret' = Returned("boundary_dof", Dof_boundary_dof(mesh, p))
    /\ touched' = touched \cup StoredWrites("boundary_dof", mesh, p, dof)
    /\ UNCHANGED <<mesh, p, dof, space, gh, seed, qlReads, mass>>

\* the space's cell_to_dof(doftype)
CellToDof ==
    /\ space.status = "ok"
    /\ \E doftype \in {"all", "cell", "edge"} :
           ret' = Returned("cell_to_dof",
                      [doftype |-> doftype,
                       table |-> cell_to_dof(mesh, p, dof, doftype)])
    /\ touched' = touched \cup StoredWrites("cell_to_dof", mesh, p, dof)
    /\ UNCHANGED <<mesh, p, dof, space, gh, seed, qlReads, mass>>

\* matrix_M(), called again on the constructed space
MatrixM ==
    /\ space.status = "ok"
    /\ ret' = matrix_M(mesh, p, dof)
    /\ UNCHANGED <<mesh, p, dof, space, gh, seed, qlReads, touched, mass>>

\* matrix_A(); a call that raises leaves nothing but the exception: ret.S
\* records what its local lists S00, S11, S01 held when it ended
MatrixA ==
    /\ space.status = "ok"
    /\ ret' = matrix_A(mesh, p, dof, space, seed)
    /\ qlReads' = qlReads \cup
                      (IF ReadsQL("matrix_A", p) THEN {"matrix_A"} ELSE {})
    /\ touched' = touched \cup StoredWrites("matrix_A", mesh, p, dof)
    /\ UNCHANGED <<mesh, p, dof, space, gh, seed, mass>>

MatrixP ==
    /\ space.status = "ok"
    /\ ret' = matrix_P(mesh, p, dof, space)
    /\ qlReads' = qlReads \cup
                      (IF ReadsQL("matrix_P", p) THEN {"matrix_P"} ELSE {})
    /\ touched' = touched \cup StoredWrites("matrix_P", mesh, p, dof)
    /\ UNCHANGED <<mesh, p, dof, space, gh, seed, mass>>

SourceVector ==
    /\ space.status = "ok"
    /\ ret' = source_vector(mesh, p, dof)
    /\ touched' = touched \cup StoredWrites("source_vector", mesh, p, dof)
    /\ UNCHANGED <<mesh, p, dof, space, gh, seed, qlReads, mass>>

\* set_dirichlet_bc(gh, g); ret.value keeps the kind of g, the data computed
\* from it and the contents of gh before the call
SetDirichletBC ==
    /\ space.status = "ok"
    /\ \E gkind \in {"scalar", "vector"}, v \in GValues :
           LET out == set_dirichlet_bc(mesh, p, gh, gkind, v)
           IN  /\ gh' = out.gh
               /\ ret' = [op |-> "set_dirichlet_bc", status |-> out.status,
                          error |-> out.error,
                          value |-> [gkind |-> gkind, v |-> v, before |-> gh]]
    /\ touched' = touched \cup StoredWrites("set_dirichlet_bc", mesh, p, dof)
    /\ UNCHANGED <<mesh, p, dof, space, seed, qlReads, mass>>

\* project(u)
Project ==
    /\ space.status = "ok"
    /\ ret' = project(mesh, p)
    /\ qlReads' = qlReads \cup
                      (IF ReadsQL("project", p) THEN {"project"} ELSE {})
    /\ touched' = touched \cup StoredWrites("project", mesh, p, dof)
    /\ UNCHANGED <<mesh, p, dof, space, gh, seed, mass>>

\* project_to_smspace(uh) for a one-axis uh of length gdof
ProjectToSmspace ==
    /\ space.status = "ok"
    /\ gh.ndim = 1
    /\ ret' = Returned("project_to_smspace",
                  [i \in 0..mesh.NC - 1 |->
                      project_to_smspace_reads(mesh, p, dof, i)])
    /\ qlReads' = qlReads \cup
           (IF ReadsQL("project_to_smspace", p)
            THEN {"project_to_smspace"} ELSE {})
    /\ touched' = touched \cup StoredWrites("project_to_smspace", mesh, p, dof)
    /\ UNCHANGED <<mesh, p, dof, space, gh, seed, mass>>

Next ==
    \/ DofInit
    \/ SpaceInit
    \/ EdgeToDof
    \/ DofBoundaryDof
    \/ BoundaryDof
    \/ CellToDof
    \/ MatrixM
    \/ MatrixA
    \/ MatrixP
    \/ SourceVector
    \/ SetDirichletBC
    \/ Project
    \/ ProjectToSmspace

Spec == Init /\ [][Next]_vars

(***************************************************************************)
(* The method bodies on a space whose fields are given: every mesh of the  *)
(* family and every degree p >= 2, with the dof tables as the dof manager  *)
(* builds them, Q and L as matrix_Q_L returns them and the J list as       *)
(* matrix_R_J returns it.  This is the state in which the bodies of the    *)
(* methods (and the global scatter, lines 686-698, applied to given local  *)
(* blocks) are examined on meshes with interior edges and on degrees with  *)
(* interior moments.                                                       *)
(***************************************************************************)
GivenSpace(q) ==
    [status |-> "ok", error |-> "none", raisedIn |-> "none",
     assigned |-> SpaceFields(mesh, q, Len(Builders)),
     Q |-> matrix_Q_L(q), L |-> matrix_Q_L(q), nJ |-> JBlocks]

BodyInit ==
    /\ mesh \in Meshes
    /\ p \in 2..MaxP
    /\ dof = BuiltDof(mesh, p)
    /\ space = GivenSpace(p)
    /\ gh \in {g \in GhInputs(mesh, p) : g.data[0][1] = 0}
    /\ seed \in 0..MaxSeed
    /\ qlReads = {}
    /\ touched = {}
    /\ mass = NoMass
    /\ ret = NoRet

\* lines 686-698 of matrix_A applied to the cells' local blocks
Scatter ==
    /\ space.status = "ok"
    /\ LET out == GlobalScatter(mesh, p, dof, seed)
       IN  ret' = [op |-> "scatter", status |-> out.status, error |-> out.error,
                   value |-> out]
    /\ UNCHANGED <<mesh, p, dof, space, gh, seed, qlReads, touched, mass>>

BodyNext ==
    \/ SetDirichletBC
    \/ Scatter
    \/ MatrixM
    \/ MatrixA
    \/ MatrixP
    \/ SourceVector
    \/ Project
    \/ ProjectToSmspace
    \/ BoundaryDof
    \/ CellToDof

BodySpec == BodyInit /\ [][BodyNext]_vars

(***************************************************************************)
(* ScalarMassIntegrator (src/fealpy/fem/scalar_mass_integrator.py).  A     *)
(* coefficient is None, a scalar, a callable, an ndarray of some shape, or *)
(* another object (a list).  Only shapes are modelled.  M counts the       *)
(* "M += ..." statements that were executed on the result matrix.          *)
(***************************************************************************)
MaxDim == 3

\* np.einsum(subscripts, *operands): one operand per subscript group, one
\* axis per label, and the axes that carry one label agree in size or have
\* size 1
einsum_ok(labels, shapes) ==
    /\ Len(labels) = Len(shapes)
    /\ \A a \in 1..Len(labels) : Len(labels[a]) = Len(shapes[a])
    /\ \A a \in 1..Len(labels), b \in 1..Len(labels) :
           \A x \in 1..Len(labels[a]), y \in 1..Len(labels[b]) :
               labels[a][x] = labels[b][y] =>
                   \/ shapes[a][x] = shapes[b][y]
                   \/ shapes[a][x] = 1
                   \/ shapes[b][y] = 1

\* the value a callable coefficient yields: coef(ps) with ps of shape
\* (NQ, NC, GD) in assembly_cell_matrix (lines 48-57); u[cell2dof] of shape
\* (NC, COFldof) in assembly_cell_matrix_fast (lines 135-138)
called_coef(method, cf, NC, NQ, ldof) ==
    IF cf.kind # "callable" THEN cf
    ELSE IF method = "assembly_cell_matrix"
    THEN [kind |-> "ndarray", shape |-> <<NQ, NC>>]
    ELSE [kind |-> "ndarray", shape |-> <<NC, ldof>>]

MassRaised(err) == [status |-> "raised", error |-> err, added |-> 0, line |-> 0]

MassAdded(line) == [status |-> "ok", error |-> "none", added |-> 1, line |-> line]

\* M += np.einsum(...): the right-hand side is evaluated first
MassEinsum(labels, shapes, line) ==
    IF einsum_ok(labels, shapes) THEN MassAdded(line) ELSE MassRaised("ValueError")

\* assembly_cell_matrix, lines 44-67
assembly_cell_matrix(cf0, NC, NQ, ldof) ==
    LET cf == called_coef("assembly_cell_matrix", cf0, NC, NQ, ldof)
        ws == <<NQ>>
        phi0 == <<NQ, NC, ldof>>
        cellmeasure == <<NC>>
    IN  IF cf.kind = "None"
        THEN MassEinsum(<<<<"q">>, <<"q", "c", "i">>, <<"q", "c", "j">>, <<"c">>>>,
                        <<ws, phi0, phi0, cellmeasure>>, 46)
        ELSE IF cf.kind = "scalar"
        THEN MassEinsum(<<<<"q">>, <<"q", "c", "i">>, <<"q", "c", "j">>, <<"c">>>>,
                        <<ws, phi0, phi0, cellmeasure>>, 60)
        ELSE IF cf.kind = "ndarray"
        THEN IF cf.shape = <<NC>>
             THEN MassEinsum(<<<<"q">>, <<"c">>, <<"q", "c", "i">>,
                               <<"q", "c", "j">>, <<"c">>>>,
                             <<ws, cf.shape, phi0, phi0, cellmeasure>>, 63)
             ELSE MassEinsum(<<<<"q">>, <<"q", "c">>, <<"q", "c", "i">>,
                               <<"q", "c", "j">>, <<"c">>>>,
                             <<ws, cf.shape, phi0, phi0, cellmeasure>>, 65)
        ELSE MassRaised("ValueError")

\* assembly_cell_matrix_fast, lines 132-148; data[dataindex] is the
\* precomputed reference table: (1, ldof, ldof), and (ldof, ldof, COFldof)
\* once "_COF_..." is appended to the key
assembly_cell_matrix_fast(cf0, NC, NQ, ldof) ==
    LET cf == called_coef("assembly_cell_matrix_fast", cf0, NC, NQ, ldof)
        cellmeasure == <<NC>>
    IN  IF cf.kind = "None"
        THEN MassEinsum(<<<<"c">>, <<"c", "i", "j">>>>,
                        <<cellmeasure, <<1, ldof, ldof>>>>, 133)
        ELSE IF cf.kind = "scalar"
        THEN MassEinsum(<<<<"c">>, <<"a", "i", "j">>>>,
                        <<cellmeasure, <<1, ldof, ldof>>>>, 140)
        ELSE IF cf.kind # "ndarray"
        THEN \* line 141: coef.shape of an object that has none
             MassRaised("AttributeError")
        ELSE IF cf.shape = <<NC, ldof>>
        THEN MassEinsum(<<<<"c">>, <<"i", "j", "k">>, <<"c", "k">>>>,
                        <<cellmeasure, <<ldof, ldof, ldof>>, cf.shape>>, 144)
        ELSE IF cf.shape = <<NC>>
        THEN MassEinsum(<<<<"c">>, <<"a", "i", "j">>, <<"c">>>>,
                        <<cellmeasure, <<1, ldof, ldof>>, cf.shape>>, 146)
        ELSE MassRaised("ValueError")

\* the coefficients handed to the integrator
Coefs ==
    {[kind |-> k, shape |-> <<>>] : k \in {"None", "scalar", "callable", "list"}}
        \cup {[kind |-> "ndarray", shape |-> sh] :
                 sh \in UNION {[1..n -> 1..MaxDim] : n \in 0..2}}
        \cup {[kind |-> "ndarray", shape |-> <<a, b, b>>] : a \in 1..2, b \in 1..MaxDim}

\* a program that builds an integrator with a coefficient and calls one of
\* its assemblers on a space of ldof local dofs over the mesh's cells
MassInit ==
    /\ mesh \in Meshes
    /\ p = 1
    /\ dof = NoDof
    /\ space = NoSpace
    /\ gh = <<>>
    /\ seed = 0
    /\ qlReads = {}
    /\ touched = {}
    /\ mass \in {[coef |-> cf, NQ |-> nq, ldof |-> ld, M |-> 0, called |-> FALSE] :
                    cf \in Coefs, nq \in 1..MaxDim, ld \in 1..MaxDim}
    /\ ret = NoRet

AssemblyCellMatrix ==
    /\ mass # NoMass
    /\ ~mass.called
    /\ LET out == assembly_cell_matrix(mass.coef, mesh.NC, mass.NQ, mass.ldof)
       IN  /\ mass' = [mass EXCEPT !.M = @ + out.added, !.called = TRUE]
           /\ ret' = [op |-> "assembly_cell_matrix", status |-> out.status,
                      error |-> out.error, value |-> out.line]
    /\ UNCHANGED <<mesh, p, dof, space, gh, seed, qlReads, touched>>

AssemblyCellMatrixFast ==
    /\ mass # NoMass
    /\ ~mass.called
    /\ LET out == assembly_cell_matrix_fast(mass.coef, mesh.NC, mass.NQ, mass.ldof)
       IN  /\ mass' = [mass EXCEPT !.M = @ + out.added, !.called = TRUE]
           /\ ret' = [op |-> "assembly_cell_matrix_fast", status |-> out.status,
                      error |-> out.error, value |-> out.line]
    /\ UNCHANGED <<mesh, p, dof, space, gh, seed, qlReads, touched>>

MassNext == AssemblyCellMatrix \/ AssemblyCellMatrixFast

MassSpec == MassInit /\ [][MassNext]_vars

(***************************************************************************)
(* Claims.                                                                 *)
(***************************************************************************)

\* C1: edge_to_dof() returns an NE x p table whose entry (e, k) is e*p + k;
\* the entries increase strictly in row-major order, no index is owned by
\* two edges, and the entries are exactly 0 .. NE*p - 1.
C1_EdgeToDofPartition ==
    ret.op = "edge_to_dof" =>
        LET t == ret.value
            E == 0..mesh.NE - 1
            K == 0..p - 1
        IN  /\ DOMAIN t = E
            /\ \A e \in E : DOMAIN t[e] = K
            /\ \A e \in E, k \in K : t[e][k] = e * p + k
            /\ \A e1 \in E, e2 \in E, k1 \in K, k2 \in K :
                   (e1 < e2 \/ (e1 = e2 /\ k1 < k2)) => t[e1][k1] < t[e2][k2]
            /\ \A e1 \in E, e2 \in E, k1 \in K, k2 \in K :
                   t[e1][k1] = t[e2][k2] => (e1 = e2 /\ k1 = k2)
            /\ {t[e][k] : e \in E, k \in K} = 0..mesh.NE * p - 1

C1_Witness ==
    /\ ret.op = "edge_to_dof"
    /\ HasInteriorEdge(mesh)
    /\ p >= 2

\* C2: after cell_to_dof(), for every cell c, local edge j (global edge e)
\* and k < p, cell2dof[cell2dofLocation[c] + j*p + k] = e*p + k, both through
\* columns (0, 2) and through columns (1, 3) of edge2cell; the offsets start
\* at 0 and grow by p * (edges of the cell); every slot is written; and the
\* second write pass changes no slot the first pass wrote.
C2_CellToDof ==
    dof.status = "built" =>
        LET loc == dof.cell2dofLocation
            c2d == dof.cell2dof
            E == 0..mesh.NE - 1
            K == 0..p - 1
            e2c == mesh.edge2cell
            written0 == {loc[e2c[e][0]] + e2c[e][2] * p + k : e \in E, k \in K}
        IN  /\ DOMAIN loc = 0..mesh.NC
            /\ loc[0] = 0
            /\ \A c \in 0..mesh.NC - 1 : loc[c + 1] - loc[c] = p * mesh.NCE[c]
            /\ DOMAIN c2d = 0..loc[mesh.NC] - 1
            /\ \A c \in 0..mesh.NC - 1 : \A j \in 0..mesh.NCE[c] - 1 : \A k \in K :
                   c2d[loc[c] + j * p + k] = mesh.cell2edge[c][j] * p + k
            /\ \A e \in E, k \in K :
                   /\ c2d[loc[e2c[e][0]] + e2c[e][2] * p + k] = e * p + k
                   /\ c2d[loc[e2c[e][1]] + e2c[e][3] * p + k] = e * p + k
            /\ {CellIdx0(mesh, p)[e][k] : e \in E, k \in K}
                   \cup {CellIdx1(mesh, p)[e][k] : e \in E, k \in K} = DOMAIN c2d
            /\ \A i \in written0 :
                   CellToDofPass2(mesh, p)[i] = CellToDofPass1(mesh, p)[i]
            /\ \A e \in E : boundary_edge_flag(mesh)[e] =>
                   CellIdx1(mesh, p)[e] = CellIdx0(mesh, p)[e]

C2_Witness ==
    /\ dof.status = "built"
    /\ HasInteriorEdge(mesh)
    /\ p >= 2
    /\ \E c \in 0..mesh.NC - 1 : mesh.NCE[c] # mesh.NCE[0]

\* C3: a call of matrix_A() on a constructed space completes and returns
\* the assembled gdof x gdof matrix, not None.
C3_MatrixAReturnsMatrix ==
    ret.op = "matrix_A" =>
        /\ ret.status = "ok"
        /\ ret.value # "None"

\* C4: in the global scatter the values, row indices and column indices
\* have one length, every entry of every local block is scattered, and the
\* global entry (r, s) is the sum over all cells i and positions (a, b) with
\* cd_i[a] = r and cd_i[b] = s of A_i[a, b].
RefCellSum(cd, blk, r, s, n) ==
    SumRange([k \in 1..n * n |->
                 IF cd[((k - 1) \div n) + 1] = r /\ cd[((k - 1) % n) + 1] = s
                 THEN blk[(k - 1) \div n][(k - 1) % n] ELSE 0], 1, n * n)

RECURSIVE RefEntry(_, _, _)
RefEntry(r, s, nc) ==
    IF nc = 0 THEN 0
    ELSE LET cd == f5_cd(mesh, p, dof, nc - 1)
             n == Len(cd)
         IN  RefEntry(r, s, nc - 1)
                 + RefCellSum(cd, LocalBlock(seed, nc - 1, n), r, s, n)

C4_ScatterAccumulates ==
    ret.op = "scatter" =>
        /\ ret.value.nvals = ret.value.nI
        /\ ret.value.nI = ret.value.nJ
        /\ ret.value.nvals =
               SumCells([i \in 0..mesh.NC - 1 |->
                   number_of_local_dofs(mesh, p)[i] * number_of_local_dofs(mesh, p)[i]],
                   mesh.NC)
        /\ ret.status = "ok"
        /\ \A r \in 0..number_of_global_dofs(mesh, p) - 1 :
               \A s \in 0..number_of_global_dofs(mesh, p) - 1 :
                   ret.value.matrix[<<r, s>>] = RefEntry(r, s, mesh.NC)

\* C5: matrix_P() completes and returns a matrix with one row per dof of
\* the degree p-1 monomial space and 2*NE*p (+ NC*idof for p > 2) columns,
\* each column block built from its own J-block: the interior block does not
\* carry the values of the second block.
C5_MatrixPReturnsBlocks ==
    ret.op = "matrix_P" =>
        /\ ret.status = "ok"
        /\ ret.value.rows = mesh.NC * ((p * (p + 1)) \div 2)
        /\ ret.value.cols = number_of_global_dofs(mesh, p)
        /\ \A a \in DOMAIN ret.value.values : \A b \in DOMAIN ret.value.values :
               a # b => ret.value.values[a] # ret.value.values[b]

Entry(g, c, e, k) ==
    IF g.ndim = 2 THEN g.data[e * p + k][c + 1]
    ELSE g.data[c * mesh.NE * p + e * p + k][1]

\* C7: set_dirichlet_bc(gh, g) writes exactly the entries of gh that belong
\* to the p dofs of each boundary edge, for each velocity component, and
\* every other entry keeps the value it had before the call.
C7_WritesBoundaryEntries ==
    ret.op = "set_dirichlet_bc" =>
        /\ ret.status = "ok"
        /\ \A e \in BdEdges(mesh), k \in 0..p - 1, c \in 0..1 :
               Entry(gh, c, e, k) = ret.value.v
        /\ \A e \in (0..mesh.NE - 1) \ BdEdges(mesh), k \in 0..p - 1, c \in 0..1 :
               Entry(gh, c, e, k) = Entry(ret.value.before, c, e, k)
        /\ \A i \in DOMAIN gh.data :
               i >= 2 * mesh.NE * p => gh.data[i] = ret.value.before.data[i]

\* The frame half of C7 alone: a call of set_dirichlet_bc changes no row of
\* gh other than the rows e*p + k of boundary edges e.
SetDirichletBCFrame ==
    ret.op = "set_dirichlet_bc" =>
        \A i \in DOMAIN gh.data :
            (i >= mesh.NE * p \/ ~boundary_edge_flag(mesh)[i \div p])
                => gh.data[i] = ret.value.before.data[i]

\* C8: source_vector(f) completes and returns a vector of length gdof that
\* is zero outside the interior-moment slice [2*NE*p, gdof); for p = 2 it is
\* entirely zero.
C8_SourceVectorReturnsLoad ==
    ret.op = "source_vector" =>
        /\ ret.status = "ok"
        /\ DOMAIN ret.value = 0..number_of_global_dofs(mesh, p) - 1
        /\ \A i \in DOMAIN ret.value : i < 2 * mesh.NE * p => ret.value[i] = 0

\* C9: with p < 2 the constructors raise at once: no dof manager, no space
\* and none of the space's matrices come to exist.
C9_LowDegreeRejected ==
    p < 2 =>
        /\ dof.status = "none"
        /\ space.status # "ok"
        /\ space.assigned \cap
               {"CM", "EM", "H0", "H1", "Q", "L", "G", "B", "M", "R", "J", "D",
                "PI0"} = {}
        /\ ret.op \in {"RDFNCVEMDof2d", "__init__"} => ret.status = "raised"

\* C10: for p = 2, matrix_Q_L() yields None for Q and for L, and no builder
\* or method ever reads self.Q or self.L (no call ends in the TypeError that
\* indexing None raises).
C10_QLAbsentAtDegree2 ==
    (p = 2 /\ "Q" \in space.assigned) =>
        /\ space.Q = "None"
        /\ space.L = "None"
        /\ qlReads = {}
        /\ ret.error # "TypeError"

C10_Witness ==
    /\ p = 2
    /\ space.status = "ok"
    /\ ret.op = "matrix_A"

\* C11: for every p >= 2 and every mesh the constructor completes without
\* error and leaves Q, L, G, B, M, R, J, D and PI0 assigned, each built by
\* one builder, and each builder runs only after every matrix it reads has
\* been assigned.
C11_ConstructionCompletes ==
    (p >= 2 /\ ret.op = "__init__") =>
        /\ ret.status = "ok"
        /\ space.status = "ok"
        /\ {"Q", "L", "G", "B", "M", "R", "J", "D", "PI0"} \subseteq space.assigned
        /\ \A i \in 1..Len(Builders), j \in 1..Len(Builders) :
               i # j => BuilderFields(Builders[i]) \cap BuilderFields(Builders[j]) = {}
        /\ \A i \in 1..Len(Builders) :
               BuilderReads(Builders[i]) \subseteq SpaceFields(mesh, p, i - 1)

\* C12: in the coupling blocks matrix_M returns, every edge's k-th moment is
\* added at column location[A] + local_index_A*p + k of its first cell A;
\* for an interior edge it is also subtracted at column
\* location[B] + local_index_B*p + k of its second cell B; a boundary edge
\* contributes only once, with the add sign; no column holds anything else.
C12_OppositeSigns ==
    ret.op = "matrix_M" =>
        /\ ret.status = "ok"
        /\ LET e2c == mesh.edge2cell
               loc == dof.cell2dofLocation
               expected(col) ==
                   {t \in {<<e, k, sg>> : e \in 0..mesh.NE - 1, k \in 0..p - 1,
                                          sg \in {"add", "subtract"}} :
                       \/ /\ t[3] = "add"
                          /\ col = loc[e2c[t[1]][0]] + e2c[t[1]][2] * p + t[2]
                       \/ /\ t[3] = "subtract"
                          /\ e2c[t[1]][0] # e2c[t[1]][1]
                          /\ col = loc[e2c[t[1]][1]] + e2c[t[1]][3] * p + t[2]}
           IN  \A col \in DOMAIN dof.cell2dof : ret.value[col] = expected(col)

\* C13: with symmetric local blocks the scatter completes and the assembled
\* global matrix is symmetric: entry (r, s) equals entry (s, r).
C13_GlobalSymmetric ==
    (/\ ret.op = "scatter"
     /\ \A i \in 0..mesh.NC - 1 :
            \A a \in 0..number_of_local_dofs(mesh, p)[i] - 1 :
                \A b \in 0..number_of_local_dofs(mesh, p)[i] - 1 :
                    BlockEntry(seed, i, a, b) = BlockEntry(seed, i, b, a)) =>
        /\ ret.status = "ok"
        /\ \A r \in 0..number_of_global_dofs(mesh, p) - 1 :
               \A t \in 0..number_of_global_dofs(mesh, p) - 1 :
                   ret.value.matrix[<<r, t>>] = ret.value.matrix[<<t, r>>]

\* C14: project(u) completes, and the vector it returns holds, at every
\* position project_to_smspace reads for cell i as entry j*p + k of
\* component c, the k-th moment of component c of u on the j-th edge of cell
\* i (so that PI0 of the cell is applied to the dof values of u); the
\* interior entries are read from 2*NE*p + i*idof on.
C14_ProjectRoundTrip ==
    ret.op = "project" =>
        /\ ret.status = "ok"
        /\ \A i \in 0..mesh.NC - 1 :
               LET reads == project_to_smspace_reads(mesh, p, dof, i)
                   n == mesh.NCE[i] * p
               IN  \A c \in 0..1, j \in 0..mesh.NCE[i] - 1, k \in 0..p - 1 :
                       ret.value[reads[c * n + j * p + k + 1]] =
                           [c |-> c, e |-> mesh.cell2edge[i][j], k |-> k]

\* C15: in both assemblers a coefficient that is neither a scalar (nor
\* None), nor an array of shape (NC,), nor an array of shape (NC, ldof) ends
\* the call with an error and nothing is added to the result matrix.
C15_MalformedCoefRejected ==
    (/\ ret.op \in {"assembly_cell_matrix", "assembly_cell_matrix_fast"}
     /\ mass.coef.kind \in {"ndarray", "list"}
     /\ (mass.coef.kind = "ndarray" =>
            /\ mass.coef.shape # <<mesh.NC>>
            /\ mass.coef.shape # <<mesh.NC, mass.ldof>>)) =>
        /\ ret.status = "raised"
        /\ mass.M = 0

WorkerSum(W, r, t) ==
    SumRange([i \in 0..mesh.NC - 1 |->
                 IF i \in W
                 THEN RefCellSum(f5_cd(mesh, p, dof, i),
                                 LocalBlock(seed, i, Len(f5_cd(mesh, p, dof, i))),
                                 r, t, Len(f5_cd(mesh, p, dof, i)))
                 ELSE 0], 0, mesh.NC - 1)

\* C17: the scatter yields a global matrix, and that matrix is the reduction
\* of the cells' triplets whatever the split of the cells between two
\* workers whose partial sums are merged at the end (hence whatever the
\* order of accumulation): entry (r, t) is the sum of the two workers' sums.
C17_PureReduction ==
    ret.op = "scatter" =>
        /\ ret.status = "ok"
        /\ \A W \in SUBSET (0..mesh.NC - 1) :
               \A r \in 0..number_of_global_dofs(mesh, p) - 1 :
                   \A t \in 0..number_of_global_dofs(mesh, p) - 1 :
                       ret.value.matrix[<<r, t>>] =
                           WorkerSum(W, r, t)
                               + WorkerSum((0..mesh.NC - 1) \ W, r, t)

\* C18: for every cell every block product of matrix_A's per-cell step is
\* conformable (D_block has as many columns as PI0[i] has rows, Diff and S
\* are square of the order of the cell's local dof count, U has that many
\* columns and as many rows as the 3-block H0 matrix), and every J-block
\* index the step reads exists in the list matrix_R_J returned.
C18_BlocksConformable ==
    (space.status = "ok" /\ ret.op = "matrix_A") =>
        /\ \A i \in 0..mesh.NC - 1 :
               /\ MatmulOK(f4_Dblock_shape(mesh, p, dof, i), PI0_shape(mesh, p, dof, i))
               /\ f4_D_order(mesh, p, dof, i) = number_of_local_dofs(mesh, p)[i]
               /\ f4_Dblock_shape(mesh, p, dof, i)[1] = f4_D_order(mesh, p, dof, i)
               /\ f4_S_order(mesh, p, dof, i) = number_of_local_dofs(mesh, p)[i]
               /\ f4_U_shape(mesh, p, dof, i)[2] = number_of_local_dofs(mesh, p)[i]
               /\ f4_U_shape(mesh, p, dof, i)[1] = f4_H0_order(p)
        /\ \A j \in f4_JReads : j < space.nJ

\* C19: when matrix_A's two edge passes are done, for every cell c the
\* entry (j*p + r, j*p + s) of S00[c] and of S11[c] has received exactly one
\* term, H1[e][r][s] * eh[e]^2 / ch[c] with e the j-th edge of c, and every
\* entry outside the diagonal p x p blocks has received none.
C19_OneTermPerBlock ==
    ret.op = "matrix_A" =>
        \A c \in 0..mesh.NC - 1 :
            LET n == mesh.NCE[c] * p
            IN  /\ DOMAIN ret.S.S00[c] = (0..n - 1) \X (0..n - 1)
                /\ DOMAIN ret.S.S11[c] = (0..n - 1) \X (0..n - 1)
                /\ \A a \in 0..n - 1, b \in 0..n - 1 :
                       LET want == IF a \div p = b \div p
                                   THEN <<[edge |-> mesh.cell2edge[c][a \div p],
                                           ch |-> c, r |-> a % p, s |-> b % p]>>
                                   ELSE <<>>
                       IN  /\ ret.S.S00[c][<<a, b>>] = want
                           /\ ret.S.S11[c][<<a, b>>] = want

C19_Witness ==
    /\ ret.op = "matrix_A"
    /\ HasInteriorEdge(mesh)
    /\ \E e \in 0..mesh.NE - 1 : boundary_edge_flag(mesh)[e]
    /\ p >= 2

\* one index list against the counts and tables of the space
IndexListOK(cdi, ldof_i, ne_i, gdof, c2d_i, reads_i) ==
    /\ Len(cdi) = ldof_i
    /\ Len(cdi) = ne_i + idof(p)
    /\ Cardinality({cdi[a] : a \in 1..Len(cdi)}) = Len(cdi)
    /\ \A a \in 1..Len(cdi) : 0 <= cdi[a] /\ cdi[a] < gdof
    /\ \A k \in 0..idof(p) - 1 : cdi[ne_i + k + 1] = c2d_i[k]
    /\ cdi = reads_i

\* all index lists of a mesh
IndexListsOK(cd, ldofs, gdof, c2d) ==
    LET C == 0..mesh.NC - 1
    IN  /\ \A i \in C :
               IndexListOK(cd[i], ldofs[i], 2 * mesh.NCE[i] * p, gdof, c2d[i],
                           project_to_smspace_reads(mesh, p, dof, i))
        /\ \A i \in C, j \in C :
               i # j =>
                   {cd[i][k] : k \in 2 * mesh.NCE[i] * p + 1..Len(cd[i])}
                       \cap {cd[j][k] : k \in 2 * mesh.NCE[j] * p + 1..Len(cd[j])} = {}
        /\ UNION {{cd[i][k] : k \in 1..Len(cd[i])} : i \in C} = 0..gdof - 1

\* C20: for every cell i the index list of f5 has length
\* number_of_local_dofs()[i] = 2*NCE_i*p + idof, no repeated index, and lies
\* in [0, number_of_global_dofs()); its interior part is row i of
\* cell_to_dof('cell') and the slice project_to_smspace reads; the interior
\* parts of different cells are disjoint; all lists together cover
\* [0, number_of_global_dofs()).
C20_IndexLists ==
    space.status = "ok" =>
        IndexListsOK([i \in 0..mesh.NC - 1 |-> f5_cd(mesh, p, dof, i)],
                     number_of_local_dofs(mesh, p),
                     number_of_global_dofs(mesh, p),
                     cell_to_dof(mesh, p, dof, "cell"))

C20_Witness ==
    /\ ret.op = "scatter"
    /\ p > 2
    /\ mesh.NC > 1
    /\ ret.value.nI = SumCells([i \in 0..mesh.NC - 1 |->
                          Len(f5_cd(mesh, p, dof, i)) * Len(f5_cd(mesh, p, dof, i))],
                          mesh.NC)
====
